---------------------------- MODULE Spec2Model ----------------------------
(***************************************************************************)
(* Teleoperated robot control core: the firmware sketches of the mecanum   *)
(* base and of the arm, and the kinematics that turn a joystick sample     *)
(* into four wheel commands.                                               *)
(*                                                                         *)
(* One sketch runs per board.  The variable board says which sketch the    *)
(* board was flashed with; the sketches share the names of their globals   *)
(* (authenticated, lastPing, servoPositions, ...), and so does the model.  *)
(*                                                                         *)
(* A text message is modelled by its command word (head), the token that   *)
(* follows "AUTH:" and the list of fields that follow the command word.    *)
(* A field is an integer literal or something that is not a number.        *)
(***************************************************************************)
EXTENDS Integers, Sequences, FiniteSets

VARIABLES
    board,            \* which sketch runs: "base_ws", "arm_ws", "arm_ble", "base_ble",
                      \* or "none"
    clients,          \* WebSocketsServer: the connected client numbers
    authenticated,    \* bool authenticated
    lastPing,         \* unsigned long lastPing [hi, lo]
    now,              \* millis(), an unsigned 32-bit counter [hi, lo]
    ticks,            \* how many times the clock has advanced (bounded)
    motors,           \* per wheel FL, FR, RL, RR: the pins IN1, IN2 and the PWM duty
    rotationSpeed,    \* int rotationSpeed (BLE base sketch)
    servoPositions,   \* int servoPositions[5]
    servoAngle,       \* per servo, the angle last written (Servo::read())
    deviceConnected,  \* bool deviceConnected (BLE sketches)
    oldDeviceConnected, \* bool oldDeviceConnected (BLE base sketch)
    conn,             \* WebSocket sketches: the connections that completed the
                      \* handshake since they connected (done) and the one whose
                      \* message the last step handled (from)
    pressure,         \* the reading moveGripper sampled last
    reply,            \* the text last sent to a client
    evt,              \* the step taken last: its kind, the message it handled and
                      \* whether the heartbeat deadline had passed when it was taken
    sinceHeartbeat,   \* the time that has really passed since lastPing was last set
                      \* (BLE base sketch: since the last frame was written)
    kinIn,            \* kinematics: the input sample
    kinOut,           \* kinematics: the raw, scaled and rounded wheel values
    app,              \* the controller app: its React state, one field per useState
    sent,             \* the controller app: the commands the last step sent
    appEvt,           \* the controller app: the step taken last
    appTicks,         \* how many timer callbacks of the app have run (bounded)
    homeRun,          \* the homing run under way: the largest joint distance when
                      \* it was requested, the control ticks since, and whether
                      \* any manual input or gripper action came in between
    base,             \* the base logic of the controller app: baseVx, baseVy,
                      \* baseBle.isConnected and the timers of its effect
    baseSent,         \* the base logic: the commands the last step sent
    baseEvt,          \* the base logic: the step taken last
    sinceSend,        \* the time since the base logic last sent a command, or
                      \* since it entered the path it is on (saturating)
    stopCount,        \* the M:0:0 commands sent since the effect last ran
    wsApp,            \* the WebSocket controller page: its sockets and timers, wsRef,
                      \* retryRef, heartbeatRef and connected
    wsLog             \* the WebSocket controller page: the step taken last, what it
                      \* sent and scheduled, the closes since the last open, and
                      \* whether disconnect() was the user's last click

fwVars == <<board, clients, authenticated, lastPing, now, ticks, motors,
            rotationSpeed, servoPositions, servoAngle, deviceConnected, pressure, reply, evt,
            sinceHeartbeat, oldDeviceConnected, conn>>
kinVars == <<kinIn, kinOut>>
appVars == <<app, sent, appEvt, appTicks, homeRun>>
dspVars == <<base, baseSent, baseEvt, sinceSend, stopCount>>
wscVars == <<wsApp, wsLog>>
vars == <<fwVars, kinVars, appVars, dspVars, wscVars>>

-----------------------------------------------------------------------------
(* Bounds of the model *)

\* the clock advances at most this many times
MaxTicks == 2
\* client numbers 0 .. MaxClients-1 may connect
MaxClients == 2
\* vx and vy are drawn from the grid -1, ..., -1/VGrid, 0, 1/VGrid, ..., 1
VGrid == 40
\* the joystick distance is drawn from the grid 0, 1/DGrid, ..., 1
DGrid == 4

-----------------------------------------------------------------------------
(* Constants of the sketches *)

authToken == "mysecret"
PING_TIMEOUT == 10000
\* unsigned long is 32 bits wide on the ESP32: a value is kept as its two
\* 16-bit halves, hi * 65536 + lo
HALF == 65536
FSR_THRESHOLD == 2500
\* analogRead of the 12-bit ADC
ADC_MAX == 4095

-----------------------------------------------------------------------------
(* Arduino helpers *)

constrain(x, lo, hi) == IF x < lo THEN lo ELSE IF x > hi THEN hi ELSE x

abs(x) == IF x < 0 THEN -x ELSE x

\* map() of the Arduino core, used here on non-negative values only
map(x, in_min, in_max, out_min, out_max) ==
    ((x - in_min) * (out_max - out_min)) \div (in_max - in_min) + out_min

-----------------------------------------------------------------------------
(* Messages *)

I(n) == [isInt |-> TRUE, val |-> n]
Junk == [isInt |-> FALSE, val |-> 0]

Msg(h, t, a) == [head |-> h, token |-> t, args |-> a]
NoMsg == Msg("", "", <<>>)

Ints(s) == [i \in 1..Len(s) |-> I(s[i])]

\* what sscanf's %d conversions do: the number of leading integer fields,
\* at most k of them
RECURSIVE LeadingInts(_, _)
LeadingInts(a, k) ==
    IF k = 0 \/ a = <<>> \/ ~Head(a).isInt THEN 0
    ELSE 1 + LeadingInts(Tail(a), k - 1)

\* String::toInt(): 0 for what is not a number
toInt(f) == IF f.isInt THEN f.val ELSE 0

AuthMsgs == { Msg("AUTH:", t, <<>>) : t \in {authToken, "wrong"} }

BaseMsgs ==
    AuthMsgs \cup
    { Msg("PING", "", <<>>), Msg("STOP", "", <<>>), Msg("MOVE", "", <<Junk, I(100)>>),
      Msg("MECANUM", "", Ints(<<-50, 50, -50, 50>>)),
      Msg("MECANUM", "", Ints(<<150, -150, 1, -1>>)),
      Msg("MECANUM", "", Ints(<<100, 100, 100>>)),
      Msg("MECANUM", "", Ints(<<-50, 50, -50, 50, 7>>)),
      Msg("MECANUM", "", <<I(100), Junk, I(100), I(100)>>) }

ArmMsgs ==
    AuthMsgs \cup
    { Msg("PING", "", <<>>), Msg("STOP", "", <<>>),
      Msg("ARM", "", Ints(<<90, 45, 90, 90, 0>>)),
      Msg("ARM", "", Ints(<<0, 200, -5, 180, 110>>)),
      Msg("ARM", "", Ints(<<90, 45, 90, 90>>)),
      Msg("ARM", "", Ints(<<90, 45, 90, 90, 0, 7>>)),
      Msg("ARM", "", <<I(90), I(45), Junk, I(90), I(0)>>) }

WsMsgs == IF board = "base_ws" THEN BaseMsgs ELSE ArmMsgs

-----------------------------------------------------------------------------
(* Motors of the WebSocket base sketch *)

LOW == 0
HIGH == 1

\* setMotorSpeed: the pins and the duty one call leaves on a motor
setMotorSpeedNoClamp(speed) ==
    [in1 |-> IF speed > 0 THEN HIGH ELSE LOW,
     in2 |-> IF speed < 0 THEN HIGH ELSE LOW,
     pwm |-> map(abs(speed), 0, 100, 0, 255)]

setMotorSpeed(speed) ==
    LET s == constrain(speed, -100, 100)
    IN  [in1 |-> IF s > 0 THEN HIGH ELSE LOW,
         in2 |-> IF s < 0 THEN HIGH ELSE LOW,
         pwm |-> map(abs(s), 0, 100, 0, 255)]

Stopped == [in1 |-> LOW, in2 |-> LOW, pwm |-> 0]

stopAllMotors == <<Stopped, Stopped, Stopped, Stopped>>

NoMotors == <<>>
NoServos == <<>>

-----------------------------------------------------------------------------
(* The clock *)

Dts == {1, PING_TIMEOUT}

\* conn is kept only by the specification that starts with a record in it
NoConn == <<>>
NewConn == [done |-> {}, from |-> -1]
Recorded(c) == IF conn = NoConn THEN conn ELSE c

UL(h, l) == [hi |-> h, lo |-> l]

\* a + d in unsigned long arithmetic, for 0 <= d < HALF
ULAdd(a, d) == UL((a.hi + (a.lo + d) \div HALF) % HALF, (a.lo + d) % HALF)

\* a - b in unsigned long arithmetic
ULSub(a, b) ==
    UL((a.hi - b.hi - (IF a.lo < b.lo THEN 1 ELSE 0)) % HALF, (a.lo - b.lo) % HALF)

\* a > k and a >= k for 0 <= k < HALF
ULGt(a, k) == a.hi > 0 \/ a.lo > k
ULGe(a, k) == a.hi > 0 \/ a.lo >= k

\* the difference is taken as a signed number and a negative one as no time
ElapsedSigned ==
    IF now.hi < lastPing.hi \/ (now.hi = lastPing.hi /\ now.lo < lastPing.lo)
    THEN UL(0, 0)
    ELSE ULSub(now, lastPing)

\* millis() - lastPing
Elapsed == ULSub(now, lastPing)

\* the session is authenticated and its heartbeat is really overdue
Late == authenticated /\ sinceHeartbeat > PING_TIMEOUT

Step(type, m) == [type |-> type, msg |-> m, late |-> Late]

Tick(dt) ==
    /\ ticks < MaxTicks
    /\ now' = ULAdd(now, dt)
    /\ ticks' = ticks + 1
    /\ sinceHeartbeat' = sinceHeartbeat + dt
    /\ conn' = Recorded([done |-> conn.done, from |-> -1])
    /\ evt' = Step("TICK", NoMsg)
    /\ UNCHANGED <<board, oldDeviceConnected, rotationSpeed, clients,
                   authenticated, lastPing, motors, servoPositions, servoAngle,
                   deviceConnected, pressure, reply, kinVars, appVars, dspVars,
                   wscVars>>

-----------------------------------------------------------------------------
(* The WebSocket sketches: webSocketEvent and loop *)

WsBoards == {"base_ws", "arm_ws"}

\* the values a handler leaves, with r sent to the client
Keep(r) == [authenticated |-> authenticated, lastPing |-> lastPing, motors |-> motors,
            servoPositions |-> servoPositions, servoAngle |-> servoAngle, reply |-> r,
            beat |-> FALSE]

\* a successful handshake also stops the wheels
OnAuthStops(m) ==
    IF m.token = authToken
    THEN [Keep("AUTH_OK") EXCEPT !.authenticated = TRUE, !.lastPing = now, !.beat = TRUE,
                                 !.motors = stopAllMotors]
    ELSE Keep("AUTH_FAIL")

\* message.startsWith("AUTH:")
OnAuth(m) ==
    IF m.token = authToken
    THEN [Keep("AUTH_OK") EXCEPT !.authenticated = TRUE, !.lastPing = now, !.beat = TRUE]
    ELSE Keep("AUTH_FAIL")

\* if (!authenticated), reached by every message that is no AUTH
GateOpen == FALSE
NotAuthenticated == ~authenticated

\* message == "PING"
OnPingNoReset == Keep("PONG")
OnPing == [Keep("PONG") EXCEPT !.lastPing = now, !.beat = TRUE]

\* an accepted drive command counts as a heartbeat
OnMecanumBeats(m) ==
    IF LeadingInts(m.args, 4) = 4
    THEN [Keep("OK") EXCEPT !.motors = [i \in 1..4 |-> setMotorSpeed(m.args[i].val)],
                            !.lastPing = now, !.beat = TRUE]
    ELSE Keep("ERROR: Invalid format")

\* message.startsWith("MECANUM ")
OnMecanum(m) ==
    IF LeadingInts(m.args, 4) = 4
    THEN [Keep("OK") EXCEPT !.motors = [i \in 1..4 |-> setMotorSpeed(m.args[i].val)]]
    ELSE Keep("ERROR: Invalid format")

\* message == "STOP"
OnStop == [Keep("STOPPED") EXCEPT !.motors = stopAllMotors]

\* message.startsWith("ARM "): the five angles are clamped, recorded and written
OnArm(m) ==
    IF LeadingInts(m.args, 5) = 5
    THEN LET p == [i \in 1..5 |-> constrain(m.args[i].val, 0, 180)]
         IN  [Keep("OK") EXCEPT !.servoPositions = p, !.servoAngle = p]
    ELSE Keep("ERROR: Invalid format")

\* case WStype_TEXT of both sketches
OnText(m) ==
    IF m.head = "AUTH:" THEN OnAuth(m)
    ELSE IF NotAuthenticated THEN Keep("NOT_AUTHENTICATED")
    ELSE IF m = Msg("PING", "", <<>>) THEN OnPing
    ELSE IF board = "base_ws" /\ m.head = "MECANUM" /\ m.args # <<>> THEN OnMecanum(m)
    ELSE IF board = "base_ws" /\ m = Msg("STOP", "", <<>>) THEN OnStop
    ELSE IF board = "arm_ws" /\ m.head = "ARM" /\ m.args # <<>> THEN OnArm(m)
    ELSE Keep("UNKNOWN_COMMAND")

WsText(num, m) ==
    /\ board \in WsBoards
    /\ num \in clients
    /\ LET r == OnText(m)
       IN  /\ authenticated' = r.authenticated
           /\ lastPing' = r.lastPing
           /\ motors' = r.motors
           /\ servoPositions' = r.servoPositions
           /\ servoAngle' = r.servoAngle
           /\ reply' = r.reply
           /\ sinceHeartbeat' = IF r.beat THEN 0 ELSE sinceHeartbeat
    /\ conn' = Recorded([done |-> IF OnText(m).reply = "AUTH_OK"
                                    THEN conn.done \cup {num} ELSE conn.done,
                          from |-> num])
    /\ evt' = Step("TEXT", m)
    /\ UNCHANGED <<board, oldDeviceConnected, rotationSpeed, clients, now,
                   ticks, deviceConnected, pressure, kinVars, appVars, dspVars,
                   wscVars>>

\* case WStype_CONNECTED: a client the server had no connection with connects
WsConnectedKeepsAuth(num) ==
    /\ board \in WsBoards
    /\ num \notin clients
    /\ clients' = clients \cup {num}
    /\ conn' = Recorded([done |-> conn.done \ {num}, from |-> -1])
    /\ evt' = Step("CONNECTED", NoMsg)
    /\ UNCHANGED <<board, oldDeviceConnected, rotationSpeed, authenticated,
                   lastPing, now, ticks, motors, servoPositions, servoAngle,
                   deviceConnected, pressure, reply, sinceHeartbeat, kinVars,
                   appVars, dspVars,
                   wscVars>>

WsConnected(num) ==
    /\ board \in WsBoards
    /\ num \notin clients
    /\ clients' = clients \cup {num}
    /\ authenticated' = FALSE
    /\ conn' = Recorded([done |-> conn.done \ {num}, from |-> -1])
    /\ evt' = Step("CONNECTED", NoMsg)
    /\ UNCHANGED <<board, oldDeviceConnected, rotationSpeed, lastPing, now,
                   ticks, motors, servoPositions, servoAngle, deviceConnected,
                   pressure, reply, sinceHeartbeat, kinVars, appVars, dspVars,
                   wscVars>>

\* case WStype_DISCONNECTED: the base stops its motors, the arm has none
WsDisconnectedNoStop(num) ==
    /\ board \in WsBoards
    /\ num \in clients
    /\ clients' = clients \ {num}
    /\ authenticated' = FALSE
    /\ conn' = Recorded([done |-> conn.done \ {num}, from |-> -1])
    /\ evt' = Step("DISCONNECTED", NoMsg)
    /\ UNCHANGED <<board, oldDeviceConnected, rotationSpeed, lastPing, now,
                   ticks, motors, servoPositions, servoAngle, deviceConnected,
                   pressure, reply, sinceHeartbeat, kinVars, appVars, dspVars,
                   wscVars>>

WsDisconnected(num) ==
    /\ board \in WsBoards
    /\ num \in clients
    /\ clients' = clients \ {num}
    /\ authenticated' = FALSE
    /\ motors' = IF board = "base_ws" THEN stopAllMotors ELSE motors
    /\ conn' = Recorded([done |-> conn.done \ {num}, from |-> -1])
    /\ evt' = Step("DISCONNECTED", NoMsg)
    /\ UNCHANGED <<board, oldDeviceConnected, rotationSpeed, lastPing, now,
                   ticks, servoPositions, servoAngle, deviceConnected, pressure,
                   reply, sinceHeartbeat, kinVars, appVars, dspVars,
                   wscVars>>

\* authenticated && (millis() - lastPing > PING_TIMEOUT)
TimedOutAtDeadline == authenticated /\ ULGe(Elapsed, PING_TIMEOUT)
TimedOut == authenticated /\ ULGt(Elapsed, PING_TIMEOUT)

\* loop(), after webSocket.loop() has delivered what was pending: the timeout check
loop ==
    /\ board \in WsBoards
    /\ IF TimedOut
       THEN /\ authenticated' = FALSE
            /\ motors' = IF board = "base_ws" THEN stopAllMotors ELSE motors
       ELSE UNCHANGED <<authenticated, motors>>
    /\ conn' = Recorded([done |-> conn.done, from |-> -1])
    /\ evt' = Step("LOOP", NoMsg)
    /\ UNCHANGED <<board, oldDeviceConnected, rotationSpeed, clients, lastPing,
                   now, ticks, servoPositions, servoAngle, deviceConnected,
                   pressure, reply, sinceHeartbeat, kinVars, appVars, dspVars,
                   wscVars>>

KinIdle == kinIn = <<>> /\ kinOut = <<>>

\* no WebSocket controller page in the model
WscIdle == wsApp = <<>> /\ wsLog = <<>>

\* no base logic of the controller app in the model
DspIdle ==
    /\ base = <<>> /\ baseSent = <<>> /\ baseEvt = "" /\ sinceSend = 0 /\ stopCount = 0

\* no controller app in the model
AppIdle == app = <<>> /\ sent = <<>> /\ appEvt = "" /\ appTicks = 0 /\ homeRun = <<>>

\* after setup(): motors stopped (setupMotors), servos at home (moveToHome)
WsBoot(c) ==
    /\ board \in WsBoards
    /\ clients = {}
    /\ authenticated = FALSE
    /\ lastPing = UL(0, 0)
    /\ now \in {UL(0, 2000), UL(HALF - 1, HALF - 6000)}
    /\ ticks = 0
    /\ motors = IF board = "base_ws" THEN stopAllMotors ELSE NoMotors
    /\ servoPositions = IF board = "arm_ws" THEN <<90, 90, 90, 90, 90>> ELSE NoServos
    /\ servoAngle = IF board = "arm_ws" THEN <<90, 90, 90, 90, 90>> ELSE NoServos
    /\ deviceConnected = FALSE
    /\ oldDeviceConnected = FALSE
    /\ conn = c
    /\ rotationSpeed = 0
    /\ pressure = 0
    /\ reply = ""
    /\ sinceHeartbeat = 0
    /\ evt = [type |-> "INIT", msg |-> NoMsg, late |-> FALSE]
    /\ KinIdle
    /\ AppIdle
    /\ DspIdle
    /\ WscIdle

WsInit == WsBoot(NoConn)

WsNext ==
    \/ \E num \in 0..(MaxClients - 1) : WsConnected(num)
    \/ \E num \in 0..(MaxClients - 1) : WsDisconnected(num)
    \/ \E num \in 0..(MaxClients - 1) : \E m \in WsMsgs : WsText(num, m)
    \/ loop
    \/ \E dt \in Dts : Tick(dt)

SpecWs == WsInit /\ [][WsNext]_vars

\* the WebSocket sketches, with conn kept
WsConnInit == WsBoot(NewConn)
SpecWsConn == WsConnInit /\ [][WsNext]_vars

-----------------------------------------------------------------------------
(* Properties of the WebSocket sketches *)

IsAuth(m) == m.head = "AUTH:"
Outputs == <<motors, servoPositions, servoAngle>>

\* C1: in both WebSocket sketches a text message that does not start with
\* "AUTH:" and is handled while authenticated is false is answered
\* NOT_AUTHENTICATED and changes neither the wheel and servo outputs nor
\* authenticated nor lastPing.
C1_UnauthenticatedRejected ==
    [][(evt'.type = "TEXT" /\ ~IsAuth(evt'.msg) /\ ~authenticated)
        => (/\ reply' = "NOT_AUTHENTICATED"
            /\ UNCHANGED <<Outputs, authenticated, lastPing>>)]_vars

C1_Witness ==
    /\ evt.type = "TEXT" /\ evt.msg.head = "MECANUM" /\ LeadingInts(evt.msg.args, 4) = 4
    /\ reply = "NOT_AUTHENTICATED"
    /\ motors = stopAllMotors

\* C2: base sketch, a loop iteration that handles no message: if the session
\* is authenticated and more than 10000 ms have really passed since the last
\* heartbeat reset it sets authenticated to false and stops the four wheels;
\* with 10000 ms or less it changes neither.
C2_HeartbeatTimeout ==
    [][(board = "base_ws" /\ evt'.type = "LOOP" /\ authenticated)
        => IF sinceHeartbeat > PING_TIMEOUT
           THEN ~authenticated' /\ motors' = stopAllMotors
           ELSE authenticated' /\ motors' = motors]_vars

C2_Witness ==
    /\ board = "base_ws" /\ evt.type = "LOOP" /\ evt.late
    /\ sinceHeartbeat = PING_TIMEOUT + 1
    /\ reply = "OK"
    /\ ~authenticated /\ motors = stopAllMotors

\* C3: base sketch, a DISCONNECTED event sets authenticated to false and
\* zeroes the four wheel outputs in the same step.
C3_DisconnectStops ==
    [][(board = "base_ws" /\ evt'.type = "DISCONNECTED")
        => (~authenticated' /\ motors' = stopAllMotors)]_vars

\* the last message handled was an accepted MECANUM, no timeout can have fired
C3_Witness ==
    /\ board = "base_ws" /\ evt.type = "DISCONNECTED"
    /\ reply = "OK" /\ ticks = 0
    /\ ~authenticated /\ motors = stopAllMotors

\* C4: base sketch, in every reachable state authenticated = false implies
\* that the four wheel outputs are zero.
C4_FailSafeInvariant ==
    (board = "base_ws" /\ ~authenticated) => motors = stopAllMotors

\* C5 as stated: base sketch, once the heartbeat is overdue, whatever is
\* handled next (a message or the timeout check) ends with the session
\* unauthenticated and the wheels stopped.
C5_StopBeforeInput ==
    (board = "base_ws" /\ evt.late /\ evt.type \in {"TEXT", "LOOP"})
        => (~authenticated /\ motors = stopAllMotors)

Beats(m) == m = Msg("PING", "", <<>>) \/ (IsAuth(m) /\ m.token = authToken)

\* C5 as amended: base sketch, with the heartbeat overdue, the timeout check
\* stops the wheels and deauthenticates; a message handled before the check is
\* handled as in any authenticated session: a PING or a correct AUTH resets
\* the deadline and keeps the wheels as they are, any other message leaves the
\* session authenticated and overdue.
C5_StopUnlessHeartbeat ==
    [][(board = "base_ws" /\ Late)
        => /\ evt'.type = "LOOP" => (~authenticated' /\ motors' = stopAllMotors)
           /\ (evt'.type = "TEXT" /\ Beats(evt'.msg))
                => (authenticated' /\ lastPing' = now /\ motors' = motors)
           /\ (evt'.type = "TEXT" /\ ~Beats(evt'.msg))
                => (authenticated' /\ lastPing' = lastPing)]_vars

C5_Witness ==
    /\ board = "base_ws" /\ evt.late /\ evt.type = "TEXT"
    /\ evt.msg = Msg("PING", "", <<>>) /\ reply = "PONG"
    /\ authenticated /\ lastPing = now /\ motors # stopAllMotors

\* C6: after an AUTH answered AUTH_FAIL, the next message that is no AUTH is
\* answered NOT_AUTHENTICATED, whatever the session was before.
C6_AuthFailDeauthenticates ==
    [][(reply = "AUTH_FAIL" /\ evt.type = "TEXT" /\ evt'.type = "TEXT" /\ ~IsAuth(evt'.msg))
        => reply' = "NOT_AUTHENTICATED"]_vars

\* C7: a CONNECTED event leaves authenticated false, and an unauthenticated
\* session stays unauthenticated, and no message changes the outputs, until
\* an AUTH with the correct token is handled.
C7_ConnectResetsAuth ==
    [][/\ evt'.type = "CONNECTED" => ~authenticated'
       /\ (~authenticated /\ authenticated')
            => (evt'.type = "TEXT" /\ IsAuth(evt'.msg) /\ evt'.msg.token = authToken)
       /\ (~authenticated /\ evt'.type = "TEXT" /\ ~authenticated') => UNCHANGED Outputs]_vars

\* a client connects after an AUTH_OK, with no timeout in between
C7_Witness ==
    /\ evt.type = "CONNECTED" /\ reply = "AUTH_OK" /\ ticks = 0
    /\ ~authenticated

\* the fields are exactly k integers
ExactInts(a, k) == Len(a) = k /\ \A i \in 1..Len(a) : a[i].isInt

\* C18: in an authenticated session of a WebSocket sketch, a MECANUM message
\* that does not carry exactly four integer arguments, or an ARM message that
\* does not carry exactly five, is answered "ERROR: Invalid format" and
\* changes no wheel output, no servo position and no session state.
C18_WrongArityRejected ==
    [][(/\ evt'.type = "TEXT" /\ authenticated
        /\ \/ board = "base_ws" /\ evt'.msg.head = "MECANUM" /\ ~ExactInts(evt'.msg.args, 4)
           \/ board = "arm_ws" /\ evt'.msg.head = "ARM" /\ ~ExactInts(evt'.msg.args, 5))
        => (/\ reply' = "ERROR: Invalid format"
            /\ UNCHANGED <<Outputs, authenticated, lastPing>>)]_vars

\* The WebSocket client (React controller): what sendCmd puts on the wire
\* once the socket is open.  The direction word of MOVE is a field that is no
\* number.
ClientDirs == {"FWD", "REV", "LEFT", "RIGHT"}

move(dir) == Msg("MOVE", "", <<Junk, I(100)>>)

stop == Msg("STOP", "", <<>>)

ClientCmds ==
    { Msg("AUTH:", authToken, <<>>), Msg("PING", "", <<>>), stop } \cup
    { move(dir) : dir \in ClientDirs }

\* C26: every command the WebSocket client emits once connected (AUTH:<token>,
\* PING, MOVE <dir> 100 for the four directions, STOP) is decoded by the
\* WebSocket base sketch as the command the client meant: for an
\* authenticated session none of them is answered UNKNOWN_COMMAND or ERROR.
C26_ClientCommandsUnderstood ==
    [][(/\ board = "base_ws" /\ evt'.type = "TEXT" /\ evt'.msg \in ClientCmds
        /\ (authenticated \/ evt'.msg.head = "AUTH:"))
        => reply' \notin {"UNKNOWN_COMMAND", "ERROR: Invalid format"}]_vars

\* C27: in the WebSocket sketches lastPing is reset only by an AUTH with the
\* right token (answered AUTH_OK, authenticated becomes true) and by a PING
\* handled while authenticated (answered PONG); every other message and every
\* other event leaves lastPing as it was.  So a base session that streams
\* drive commands without PING is deauthenticated and stopped by the loop
\* iteration that finds more than 10000 ms passed since the last reset.
C27_OnlyAuthAndPingBeat ==
    [][/\ (board \in WsBoards /\ evt'.type = "TEXT")
          => LET m == evt'.msg
             IN  IF m.head = "AUTH:" /\ m.token = authToken
                 THEN /\ lastPing' = now /\ sinceHeartbeat' = 0
                      /\ authenticated' /\ reply' = "AUTH_OK"
                 ELSE IF m = Msg("PING", "", <<>>) /\ authenticated
                 THEN lastPing' = now /\ sinceHeartbeat' = 0 /\ reply' = "PONG"
                 ELSE lastPing' = lastPing /\ sinceHeartbeat' = sinceHeartbeat
       /\ (board \in WsBoards /\ evt'.type \notin {"TEXT", "TICK"})
          => (lastPing' = lastPing /\ sinceHeartbeat' = sinceHeartbeat)
       /\ (/\ board = "base_ws" /\ evt'.type = "LOOP"
           /\ authenticated /\ sinceHeartbeat > PING_TIMEOUT)
          => (~authenticated' /\ motors' = stopAllMotors)]_vars

\* an accepted MECANUM was handled more than 10000 ms after the last reset:
\* the deadline is still overdue and the session still authenticated
C27_Witness ==
    /\ board = "base_ws" /\ evt.type = "TEXT" /\ evt.msg.head = "MECANUM"
    /\ reply = "OK" /\ authenticated
    /\ sinceHeartbeat > PING_TIMEOUT /\ lastPing # now

\* C40: millis() - lastPing > PING_TIMEOUT is computed in unsigned 32-bit
\* arithmetic: for an authenticated session the test is true exactly when
\* more than 10000 ms have really passed since the last heartbeat reset, also
\* when millis() has wrapped around 2^32 in between.
C40_TimeoutAcrossWrap ==
    (board \in WsBoards /\ authenticated)
        => /\ Elapsed = UL(0, sinceHeartbeat)
           /\ TimedOut <=> sinceHeartbeat > PING_TIMEOUT

\* the counter has wrapped since the last reset and the deadline has passed
C40_Witness ==
    /\ board \in WsBoards /\ authenticated
    /\ lastPing.hi = HALF - 1 /\ now.hi = 0
    /\ sinceHeartbeat > PING_TIMEOUT /\ TimedOut

\* C35: authentication is per connection: in the WebSocket base sketch a
\* MECANUM or STOP is applied only if the connection it came in on has
\* completed the AUTH handshake since it connected; from any other
\* connection it is answered NOT_AUTHENTICATED and changes no wheel output.
C35_AuthPerConnection ==
    [][(/\ board = "base_ws" /\ evt'.type = "TEXT"
        /\ evt'.msg.head \in {"MECANUM", "STOP"}
        /\ conn'.from \notin conn.done)
        => (reply' = "NOT_AUTHENTICATED" /\ motors' = motors)]_vars

-----------------------------------------------------------------------------
(* The BLE arm sketch: MyServerCallbacks, MyCallbacks::onWrite, moveGripper *)

\* a frame "A:f1:f2:..." is its fields f1, f2, ...; a field may be empty
ArmFrames ==
    { Msg("A:", "", Ints(<<90, 45, 90, 90, 0>>)),
      Msg("A:", "", Ints(<<90, 45, 90, 90, 60>>)),
      Msg("A:", "", Ints(<<0, 200, -5, 180, 150>>)),
      Msg("A:", "", Ints(<<90, 45, 90, 90>>)),
      Msg("A:", "", <<I(90), I(45), I(90), I(90), Junk>>),
      Msg("A:", "", Ints(<<10, 20, 30, 40, 50, 60>>)),
      Msg("C:", "", <<Junk>>) }

\* readFSR(): what analogRead may return
Pressures == {0, FSR_THRESHOLD, FSR_THRESHOLD + 1, ADC_MAX}

\* the loop over value in onWrite: one more field is counted per round, for
\* five rounds at most, and the loop ends after the last field
ParseCount(fields) == IF Len(fields) < 5 THEN Len(fields) ELSE 5

\* moveServo: the angle written to a servo
moveServo(targetAngle) == constrain(targetAngle, 0, 180)

\* moveGripper: the angle the gripper servo holds after the call, given the
\* pressure readFSR() returned
moveGripperNoInterlock(targetAngle, currentPressure) == constrain(targetAngle, 0, 110)

moveGripperBlocksOpening(targetAngle, currentPressure) ==
    IF currentPressure > FSR_THRESHOLD THEN servoAngle[5]
    ELSE constrain(targetAngle, 0, 110)

moveGripper(targetAngle, currentPressure) ==
    LET t == constrain(targetAngle, 0, 110)
    IN  IF currentPressure > FSR_THRESHOLD /\ t < servoAngle[5]
        THEN servoAngle[5]
        ELSE t

onConnect ==
    /\ board = "arm_ble"
    /\ ~deviceConnected
    /\ deviceConnected' = TRUE
    /\ evt' = Step("BLE_CONNECT", NoMsg)
    /\ UNCHANGED <<board, oldDeviceConnected, conn, rotationSpeed, clients,
                   authenticated, lastPing, now, ticks, motors, servoPositions,
                   servoAngle, pressure, reply, sinceHeartbeat, kinVars,
                   appVars, dspVars,
                   wscVars>>

onDisconnect ==
    /\ board = "arm_ble"
    /\ deviceConnected
    /\ deviceConnected' = FALSE
    /\ evt' = Step("BLE_DISCONNECT", NoMsg)
    /\ UNCHANGED <<board, oldDeviceConnected, conn, rotationSpeed, clients,
                   authenticated, lastPing, now, ticks, motors, servoPositions,
                   servoAngle, pressure, reply, sinceHeartbeat, kinVars,
                   appVars, dspVars,
                   wscVars>>

\* onWrite of the arm: value is the frame written by the connected central,
\* p the pressure readFSR() returns if moveGripper is reached
ArmOnWrite(value, p) ==
    /\ board = "arm_ble"
    /\ deviceConnected
    /\ IF value.head = "A:" /\ ParseCount(value.args) = 5
       THEN LET values == [i \in 1..5 |-> toInt(value.args[i])]
            IN  /\ servoPositions' = values
                /\ servoAngle' = <<moveServo(values[1]), moveServo(values[2]),
                                   moveServo(values[3]), moveServo(values[4]),
                                   moveGripper(values[5], p)>>
                /\ pressure' = p
       ELSE UNCHANGED <<servoPositions, servoAngle, pressure>>
    /\ evt' = Step("WRITE", value)
    /\ UNCHANGED <<board, oldDeviceConnected, conn, rotationSpeed, clients,
                   authenticated, lastPing, now, ticks, motors, deviceConnected,
                   reply, sinceHeartbeat, kinVars, appVars, dspVars,
                   wscVars>>

\* after setup(): the servos were written their start positions
ArmBleInit ==
    /\ board = "arm_ble"
    /\ clients = {}
    /\ authenticated = FALSE
    /\ lastPing = UL(0, 0)
    /\ now = UL(0, 0)
    /\ ticks = 0
    /\ motors = NoMotors
    /\ servoPositions = <<90, 0, 90, 110, 110>>
    /\ servoAngle = <<90, 0, 90, 110, 110>>
    /\ deviceConnected = FALSE
    /\ oldDeviceConnected = FALSE
    /\ conn = NoConn
    /\ rotationSpeed = 0
    /\ pressure = 0
    /\ reply = ""
    /\ sinceHeartbeat = 0
    /\ evt = [type |-> "INIT", msg |-> NoMsg, late |-> FALSE]
    /\ KinIdle
    /\ AppIdle
    /\ DspIdle
    /\ WscIdle

ArmBleNext ==
    \/ onConnect
    \/ onDisconnect
    \/ \E value \in ArmFrames : \E p \in Pressures : ArmOnWrite(value, p)

SpecArmBle == ArmBleInit /\ [][ArmBleNext]_vars

\* the frame reaches moveGripper
Applied(value) == value.head = "A:" /\ Len(value.args) >= 5
GripperTarget(value) == constrain(toInt(value.args[5]), 0, 110)

\* C8: whenever the pressure moveGripper samples is above the threshold, a
\* command whose clamped gripper target is below the gripper servo's angle
\* leaves that angle unchanged; the gripper angle never decreases in a step
\* that sampled a pressure above the threshold.
C8_GripperInterlock ==
    [][(board = "arm_ble" /\ evt'.type = "WRITE" /\ Applied(evt'.msg)
        /\ pressure' > FSR_THRESHOLD)
        => /\ GripperTarget(evt'.msg) < servoAngle[5] => servoAngle'[5] = servoAngle[5]
           /\ servoAngle'[5] >= servoAngle[5]]_vars

\* a closing command (to 0, from 110) was discarded at full pressure
C8_Witness ==
    /\ board = "arm_ble" /\ evt.type = "WRITE"
    /\ evt.msg = Msg("A:", "", Ints(<<90, 45, 90, 90, 0>>))
    /\ pressure = ADC_MAX
    /\ servoPositions[5] = 0 /\ servoAngle[5] = 110

\* C9: a gripper command whose clamped target is at or above the gripper
\* servo's angle is written to the servo whatever the pressure is.
C9_OpeningNeverBlocked ==
    [][(board = "arm_ble" /\ evt'.type = "WRITE" /\ Applied(evt'.msg)
        /\ GripperTarget(evt'.msg) >= servoAngle[5])
        => servoAngle'[5] = GripperTarget(evt'.msg)]_vars

\* the gripper was opened, or held, at 60 while the pressure was at its maximum
C9_Witness ==
    /\ board = "arm_ble" /\ evt.type = "WRITE"
    /\ evt.msg = Msg("A:", "", Ints(<<90, 45, 90, 90, 60>>))
    /\ pressure = ADC_MAX
    /\ servoAngle[5] = 60

\* C19: the BLE arm sketch applies an A: frame only if it carries exactly five
\* fields, each a number; a frame with fewer or more fields or with an empty
\* field changes none of the five recorded positions and none of the servo
\* outputs.
C19_OnlyFiveFields ==
    [][(board = "arm_ble" /\ evt'.type = "WRITE"
        /\ ~(evt'.msg.head = "A:" /\ ExactInts(evt'.msg.args, 5)))
        => UNCHANGED <<servoPositions, servoAngle>>]_vars

\* C38: in the BLE arm sketch, after every A: command that was processed,
\* each recorded position servoPositions[i] equals the angle servo i holds,
\* the gripper entry included when the force interlock discards the closing
\* motion and when a field is out of range.
C38_RecordedIsWritten ==
    (board = "arm_ble" /\ evt.type = "WRITE" /\ Applied(evt.msg))
        => \A i \in 1..5 : servoPositions[i] = servoAngle[i]

\* the two sketches that take integer actuator commands, side by side
ActuatorInit == WsInit \/ ArmBleInit
ActuatorNext == WsNext \/ ArmBleNext
SpecActuators == ActuatorInit /\ [][ActuatorNext]_vars

\* the direction pins and the duty of a wheel driven at c percent
Driven(m, c) ==
    /\ m.pwm = (abs(c) * 255) \div 100
    /\ m.in1 = (IF c > 0 THEN HIGH ELSE LOW)
    /\ m.in2 = (IF c < 0 THEN HIGH ELSE LOW)

\* C17: every accepted MECANUM command drives each wheel with its argument
\* clamped to [-100, 100], the duty being the clamped magnitude mapped from
\* 0..100 to 0..255, never above 255; every angle the BLE arm sketch writes to
\* a servo is the commanded value clamped to [0, 180], the gripper's to
\* [0, 110] (unless the pressure interlock discards a closing command); an
\* out-of-range value is clamped and applied, not rejected.
C17_ActuatorsClamped ==
    [][/\ (board = "base_ws" /\ evt'.type = "TEXT" /\ authenticated
            /\ evt'.msg.head = "MECANUM" /\ LeadingInts(evt'.msg.args, 4) = 4)
          => /\ reply' = "OK"
             /\ \A i \in 1..4 :
                   /\ Driven(motors'[i], constrain(evt'.msg.args[i].val, -100, 100))
                   /\ motors'[i].pwm \in 0..255
       /\ (board = "arm_ble" /\ evt'.type = "WRITE" /\ Applied(evt'.msg))
          => /\ \A i \in 1..4 :
                   /\ servoAngle'[i] = constrain(toInt(evt'.msg.args[i]), 0, 180)
                   /\ servoAngle'[i] \in 0..180
             /\ servoAngle'[5] \in 0..110
             /\ servoAngle'[5] \in {GripperTarget(evt'.msg), servoAngle[5]}
             /\ pressure' <= FSR_THRESHOLD => servoAngle'[5] = GripperTarget(evt'.msg)]_vars

\* MECANUM 150 -150 1 -1 was applied as 100 -100 1 -1
C17_Witness ==
    /\ board = "base_ws" /\ evt.type = "TEXT" /\ reply = "OK"
    /\ evt.msg = Msg("MECANUM", "", Ints(<<150, -150, 1, -1>>))
    /\ motors[1] = [in1 |-> HIGH, in2 |-> LOW, pwm |-> 255]
    /\ motors[2] = [in1 |-> LOW, in2 |-> HIGH, pwm |-> 255]
    /\ motors[3].pwm = 2

-----------------------------------------------------------------------------
(* Mecanum kinematics: moveXY of the BLE base sketch and handleJoystickMove  *)
(* of the joystick client.  The sketches compute in floating point; here a  *)
(* value is an exact fraction: vx = x / VGrid, distance = k / DGrid, and a   *)
(* sine is given to three decimals.  A result holds, per wheel FL, FR, RL,   *)
(* RR, the raw value (raw[i] / unit), the scaled value before rounding       *)
(* (num[i] / den) and the rounded wheel command out[i].                      *)

MAX_SPEED == 255

Max2(a, b) == IF a >= b THEN a ELSE b
Max4(s) == Max2(Max2(abs(s[1]), abs(s[2])), Max2(abs(s[3]), abs(s[4])))

\* round() of C: n / d to the nearest integer, halves away from zero (d > 0)
round(n, d) == IF n >= 0 THEN (2 * n + d) \div (2 * d) ELSE -((2 * (-n) + d) \div (2 * d))

\* Math.round of JavaScript: n / d to the nearest integer, halves upwards (d > 0)
MathRound(n, d) == (2 * n + d) \div (2 * d)

\* moveXY(vx, vy), vx = x / VGrid and vy = y / VGrid
moveXYNoScale(x, y) ==
    LET raw == <<y + x, y - x, y - x, y + x>>
    IN  [raw |-> raw, unit |-> VGrid,
         num |-> [i \in 1..4 |-> raw[i] * MAX_SPEED], den |-> VGrid,
         out |-> [i \in 1..4 |-> round(raw[i] * MAX_SPEED, VGrid)]]

\* the wheels paired front and rear instead of along the diagonals
moveXYFrontRear(x, y) ==
    LET raw == <<y + x, y + x, y - x, y - x>>
        max_required == Max4(raw)
        den == IF max_required > VGrid THEN max_required ELSE VGrid
    IN  [raw |-> raw, unit |-> VGrid,
         num |-> [i \in 1..4 |-> raw[i] * MAX_SPEED], den |-> den,
         out |-> [i \in 1..4 |-> round(raw[i] * MAX_SPEED, den)]]

moveXY(x, y) ==
    LET raw == <<y + x, y - x, y - x, y + x>>
        max_required == Max4(raw)
        \* speed * scale is raw / VGrid when max_required <= 1.0, else raw / max
        den == IF max_required > VGrid THEN max_required ELSE VGrid
    IN  [raw |-> raw, unit |-> VGrid,
         num |-> [i \in 1..4 |-> raw[i] * MAX_SPEED], den |-> den,
         out |-> [i \in 1..4 |-> round(raw[i] * MAX_SPEED, den)]]

\* Math.sin in thousandths, for the multiples of 15 degrees
SinTable == <<0, 259, 500, 707, 866, 966, 1000>>
Sin(deg) ==
    LET d == deg % 360
        h == d % 180
        v == IF h <= 90 THEN SinTable[h \div 15 + 1] ELSE SinTable[(180 - h) \div 15 + 1]
    IN  IF d < 180 THEN v ELSE -v
Cos(deg) == Sin(deg + 90)

\* handleJoystickMove(angle, distance), distance = k / DGrid:
\* a raw speed sin * distance * 100 is (sine in thousandths * k) / (10 * DGrid)
handleJoystickMove(angle, k) ==
    LET frontLeft == Sin(angle + 45) * k
        frontRight == Cos(angle + 45) * k
        rearLeft == Cos(angle + 45) * k
        rearRight == Sin(angle + 45) * k
        raw == <<frontLeft, frontRight, rearLeft, rearRight>>
        unit == 10 * DGrid
        \* Math.max(|fl|, |fr|, |rl|, |rr|, 1.0)
        maxVal == Max2(Max4(raw), unit)
    IN  [raw |-> raw, unit |-> unit,
         num |-> [i \in 1..4 |-> raw[i] * 100], den |-> maxVal,
         out |-> [i \in 1..4 |-> MathRound(raw[i] * 100, maxVal)]]

Angles == { 15 * a : a \in 0..23 }

KinInputs ==
    { [mode |-> "xy", x |-> x, y |-> y] : x, y \in (-VGrid)..VGrid } \cup
    { [mode |-> "polar", x |-> a, y |-> k] : a \in Angles, k \in 0..DGrid }

FwIdle ==
    /\ board = "none"
    /\ clients = {}
    /\ authenticated = FALSE
    /\ lastPing = UL(0, 0)
    /\ now = UL(0, 0)
    /\ ticks = 0
    /\ motors = NoMotors
    /\ servoPositions = NoServos
    /\ servoAngle = NoServos
    /\ deviceConnected = FALSE
    /\ oldDeviceConnected = FALSE
    /\ conn = NoConn
    /\ rotationSpeed = 0
    /\ pressure = 0
    /\ reply = ""
    /\ sinceHeartbeat = 0
    /\ evt = [type |-> "INIT", msg |-> NoMsg, late |-> FALSE]

KinInit == FwIdle /\ AppIdle /\ DspIdle /\ WscIdle /\ kinIn \in KinInputs /\ kinOut = <<>>

ApplyMoveXY ==
    /\ kinIn.mode = "xy" /\ kinOut = <<>>
    /\ kinOut' = moveXY(kinIn.x, kinIn.y)
    /\ UNCHANGED <<fwVars, appVars, dspVars, wscVars, kinIn>>

ApplyHandleJoystickMove ==
    /\ kinIn.mode = "polar" /\ kinOut = <<>>
    /\ kinOut' = handleJoystickMove(kinIn.x, kinIn.y)
    /\ UNCHANGED <<fwVars, appVars, dspVars, wscVars, kinIn>>

KinNext == ApplyMoveXY \/ ApplyHandleJoystickMove

SpecKin == KinInit /\ [][KinNext]_vars

\* the output range of a mode
OutputRange == IF kinIn.mode = "xy" THEN MAX_SPEED ELSE 100

\* C10: in both input modes every output wheel magnitude is at most the
\* output range (255 for moveXY, 100 for the angle/distance mode), and the
\* four values before rounding are the raw values times one common positive
\* factor (output range over the common divisor), so their ratios are those
\* of the raw values.
C10_SaturationSafe ==
    kinOut # <<>> =>
        /\ \A i \in 1..4 : abs(kinOut.out[i]) <= OutputRange
        /\ kinOut.den > 0
        /\ \A i \in 1..4 : kinOut.num[i] = kinOut.raw[i] * OutputRange

\* vx = 1, vy = 2 / VGrid: the raw front-left speed exceeds 1.0 and is scaled
\* to 255, the others in proportion
C10_Witness ==
    /\ kinIn = [mode |-> "xy", x |-> VGrid, y |-> 2] /\ kinOut # <<>>
    /\ kinOut.raw[1] > kinOut.unit
    /\ kinOut.out[1] = MAX_SPEED /\ abs(kinOut.out[2]) < MAX_SPEED /\ kinOut.out[2] # 0

\* C11 as stated: velocity-vector mode, the input vx = 1.0, vy = 0.0 yields
\* the wheel speeds fl = 100, fr = -100, rl = -100, rr = 100.
C11_LateralGives100 ==
    (kinIn = [mode |-> "xy", x |-> VGrid, y |-> 0] /\ kinOut # <<>>)
        => kinOut.out = <<100, -100, -100, 100>>

\* C11 as amended: velocity-vector mode computes fl = vy + vx, fr = vy - vx,
\* rl = vy - vx, rr = vy + vx, so that the wheels of a diagonal get the same
\* command, a pure lateral input drives the two diagonals in opposite senses,
\* and vx = 1.0, vy = 0.0 yields fl = 255, fr = -255, rl = -255, rr = 255.
C11_VelocityMode ==
    (kinIn.mode = "xy" /\ kinOut # <<>>) =>
        /\ kinOut.raw = <<kinIn.y + kinIn.x, kinIn.y - kinIn.x,
                          kinIn.y - kinIn.x, kinIn.y + kinIn.x>>
        /\ kinOut.out[1] = kinOut.out[4] /\ kinOut.out[2] = kinOut.out[3]
        /\ kinIn.y = 0 => kinOut.out[2] = -kinOut.out[1]
        /\ (kinIn.x = VGrid /\ kinIn.y = 0)
             => kinOut.out = <<MAX_SPEED, -MAX_SPEED, -MAX_SPEED, MAX_SPEED>>

C11_Witness ==
    /\ kinIn = [mode |-> "xy", x |-> VGrid, y |-> 0]
    /\ kinOut # <<>>
    /\ kinOut.out = <<255, -255, -255, 255>>

\* C12: angle/distance mode at full distance reproduces the reference table:
\* 90 degrees gives (71, 71, -71, -71), 270 gives (-71, -71, 71, 71), 0 gives
\* (71, -71, 71, -71), 180 gives (-71, 71, -71, 71), 45 gives (100, 0, 0, -100).
C12_ReferenceTable ==
    (kinIn.mode = "polar" /\ kinIn.y = DGrid /\ kinOut # <<>>) =>
        /\ kinIn.x = 90 => kinOut.out = <<71, 71, -71, -71>>
        /\ kinIn.x = 270 => kinOut.out = <<-71, -71, 71, 71>>
        /\ kinIn.x = 0 => kinOut.out = <<71, -71, 71, -71>>
        /\ kinIn.x = 180 => kinOut.out = <<-71, 71, -71, 71>>
        /\ kinIn.x = 45 => kinOut.out = <<100, 0, 0, -100>>

\* C31: in angle/distance mode the wheel speed scales with the joystick
\* distance d = k / DGrid: d = 0 gives (0, 0, 0, 0) at every angle, d = 1
\* gives a largest wheel magnitude of 100, and at a fixed angle the largest
\* wheel magnitude is d times that of d = 1, to within the rounding of one
\* unit.
C31_SpeedScalesWithDistance ==
    (kinIn.mode = "polar" /\ kinOut # <<>>) =>
        /\ kinIn.y = 0 => kinOut.out = <<0, 0, 0, 0>>
        /\ kinIn.y = DGrid => Max4(kinOut.out) = 100
        /\ abs(Max4(kinOut.out) * DGrid - 100 * kinIn.y) <= DGrid

-----------------------------------------------------------------------------
(* The BLE base sketch: MyServerCallbacks, MyCallbacks::onWrite, setMotor,   *)
(* rotateLeft, rotateRight.  A frame "M:vx:vy" is its fields, a number being *)
(* given in units of 1 / VGrid; "C:cmd" carries cmd as its token and         *)
(* "S:val" its value as one field.                                           *)

\* String::toFloat(): 0 for what is not a number
toFloat(f) == IF f.isInt THEN f.val ELSE 0

\* fabs(v) < 0.05, v = x / VGrid
InDeadZone(x) == 20 * abs(x) < VGrid

BaseFrames ==
    { Msg("M:", "", <<I(x), I(y)>>) : x, y \in {-VGrid, 0, 1, 2} } \cup
    { Msg("M:", "", <<I(VGrid)>>), Msg("M:", "", <<Junk, I(VGrid)>>) } \cup
    { Msg("C:", c, <<>>) : c \in {"rotleft", "rotright", "stop", "spin"} } \cup
    { Msg("S:", "", <<f>>) : f \in {I(20), I(120), I(300), Junk} } \cup
    { Msg("X:", "", <<>>) }

\* speed 0 raises both direction pins
setMotorBrakes(speed) ==
    LET s == constrain(speed, -MAX_SPEED, MAX_SPEED)
    IN  [in1 |-> IF s >= 0 THEN HIGH ELSE LOW,
         in2 |-> IF s <= 0 THEN HIGH ELSE LOW,
         pwm |-> abs(s)]

\* setMotor: the pins and the duty one call leaves on a motor
setMotor(speed) ==
    LET s == constrain(speed, -MAX_SPEED, MAX_SPEED)
    IN  [in1 |-> IF s > 0 THEN HIGH ELSE LOW,
         in2 |-> IF s < 0 THEN HIGH ELSE LOW,
         pwm |-> abs(s)]

stopMotors == <<setMotor(0), setMotor(0), setMotor(0), setMotor(0)>>

\* all four wheels forward
rotateLeftAllForward ==
    <<setMotor(rotationSpeed), setMotor(rotationSpeed),
      setMotor(rotationSpeed), setMotor(rotationSpeed)>>

rotateLeft ==
    <<setMotor(rotationSpeed), setMotor(-rotationSpeed),
      setMotor(rotationSpeed), setMotor(-rotationSpeed)>>

rotateRight ==
    <<setMotor(-rotationSpeed), setMotor(rotationSpeed),
      setMotor(-rotationSpeed), setMotor(rotationSpeed)>>

BaseOnConnect ==
    /\ board = "base_ble"
    /\ ~deviceConnected
    /\ deviceConnected' = TRUE
    /\ evt' = Step("BLE_CONNECT", NoMsg)
    /\ UNCHANGED <<board, oldDeviceConnected, conn, rotationSpeed, clients,
                   authenticated, lastPing, now, ticks, motors, servoPositions,
                   servoAngle, pressure, reply, sinceHeartbeat, kinVars,
                   appVars, dspVars,
                   wscVars>>

\* onDisconnect: stopMotors(), the safety stop
BaseOnDisconnect ==
    /\ board = "base_ble"
    /\ deviceConnected
    /\ deviceConnected' = FALSE
    /\ motors' = stopMotors
    /\ evt' = Step("BLE_DISCONNECT", NoMsg)
    /\ UNCHANGED <<board, oldDeviceConnected, conn, rotationSpeed, clients,
                   authenticated, lastPing, now, ticks, servoPositions,
                   servoAngle, pressure, reply, sinceHeartbeat, kinVars,
                   appVars, dspVars,
                   wscVars>>

\* stops as soon as one axis is inside the dead zone
OnMEitherAxis(value) ==
    IF Len(value.args) < 2 THEN motors
    ELSE LET vx == toFloat(value.args[1])
             vy == toFloat(value.args[2])
         IN  IF InDeadZone(vx) \/ InDeadZone(vy) THEN stopMotors
             ELSE [i \in 1..4 |-> setMotor(moveXY(vx, vy).out[i])]

\* value.startsWith("M:"): both colons must be there; what follows a third
\* colon is not read by toFloat
OnM(value) ==
    IF Len(value.args) < 2 THEN motors
    ELSE LET vx == toFloat(value.args[1])
             vy == toFloat(value.args[2])
         IN  IF InDeadZone(vx) /\ InDeadZone(vy) THEN stopMotors
             ELSE [i \in 1..4 |-> setMotor(moveXY(vx, vy).out[i])]

\* value.startsWith("C:")
OnC(value) ==
    IF value.token = "rotleft" THEN rotateLeft
    ELSE IF value.token = "rotright" THEN rotateRight
    ELSE IF value.token = "stop" THEN stopMotors
    ELSE motors

\* the value is stored as it was sent
OnSNoClamp(value) == toInt(value.args[1])

\* value.startsWith("S:")
OnS(value) == constrain(toInt(value.args[1]), 50, MAX_SPEED)

\* onWrite of the base: value is the frame written by the connected central
BaseOnWrite(value) ==
    /\ board = "base_ble"
    /\ deviceConnected
    /\ motors' = IF value.head = "M:" THEN OnM(value)
                 ELSE IF value.head = "C:" THEN OnC(value)
                 ELSE motors
    /\ rotationSpeed' = IF value.head = "S:" THEN OnS(value) ELSE rotationSpeed
    /\ sinceHeartbeat' = 0
    /\ evt' = Step("WRITE", value)
    /\ UNCHANGED <<board, oldDeviceConnected, conn, clients, authenticated, lastPing,
                   now, ticks, servoPositions, servoAngle, deviceConnected,
                   pressure, reply, kinVars, appVars, dspVars,
                   wscVars>>

\* loop() of the BLE base: advertising is restarted after a disconnect and a
\* new connection is noted; nothing else runs between two callbacks
BaseLoop ==
    /\ board = "base_ble"
    /\ oldDeviceConnected' = deviceConnected
    /\ evt' = Step("LOOP", NoMsg)
    /\ UNCHANGED <<board, conn, clients, authenticated, lastPing, now, ticks, motors,
                   rotationSpeed, servoPositions, servoAngle, deviceConnected,
                   pressure, reply, sinceHeartbeat, kinVars, appVars, dspVars,
                   wscVars>>

\* after setup(): stopMotors(), rotationSpeed as declared
BaseBleInit ==
    /\ board = "base_ble"
    /\ clients = {}
    /\ authenticated = FALSE
    /\ lastPing = UL(0, 0)
    /\ now = UL(0, 0)
    /\ ticks = 0
    /\ motors = stopMotors
    /\ rotationSpeed = 180
    /\ servoPositions = NoServos
    /\ servoAngle = NoServos
    /\ deviceConnected = FALSE
    /\ oldDeviceConnected = FALSE
    /\ conn = NoConn
    /\ pressure = 0
    /\ reply = ""
    /\ sinceHeartbeat = 0
    /\ evt = [type |-> "INIT", msg |-> NoMsg, late |-> FALSE]
    /\ KinIdle
    /\ AppIdle
    /\ DspIdle
    /\ WscIdle

BaseBleNext ==
    \/ BaseOnConnect
    \/ BaseOnDisconnect
    \/ \E value \in BaseFrames : BaseOnWrite(value)
    \/ BaseLoop
    \/ \E dt \in Dts : Tick(dt)

SpecBaseBle == BaseBleInit /\ [][BaseBleNext]_vars

\* a wheel driven forward, or in reverse, at duty n
Forward(n) == [in1 |-> HIGH, in2 |-> LOW, pwm |-> n]
Reverse(n) == [in1 |-> LOW, in2 |-> HIGH, pwm |-> n]

\* C20: C:rotleft drives the front-left and rear-left wheels forward and the
\* front-right and rear-right wheels in reverse, all four at magnitude
\* rotationSpeed; C:rotright is the mirror; C:stop zeroes all four wheels; any
\* other C: argument leaves the wheels unchanged.
C20_RotateDiscrete ==
    [][(board = "base_ble" /\ evt'.type = "WRITE" /\ evt'.msg.head = "C:")
        => LET cmd == evt'.msg.token
               f == Forward(rotationSpeed)
               r == Reverse(rotationSpeed)
           IN  /\ cmd = "rotleft" => motors' = <<f, r, f, r>>
               /\ cmd = "rotright" => motors' = <<r, f, r, f>>
               /\ cmd = "stop" => motors' = <<Stopped, Stopped, Stopped, Stopped>>
               /\ cmd \notin {"rotleft", "rotright", "stop"} => motors' = motors]_vars

\* C:rotleft after S:120: left wheels forward, right wheels in reverse, at 120
C20_Witness ==
    /\ board = "base_ble" /\ evt.type = "WRITE"
    /\ evt.msg = Msg("C:", "rotleft", <<>>)
    /\ rotationSpeed = 120
    /\ motors = <<Forward(120), Reverse(120), Forward(120), Reverse(120)>>

\* the pins and the duty of a wheel commanded the signed speed v
Wheel(v) == IF v > 0 THEN Forward(v) ELSE IF v < 0 THEN Reverse(-v) ELSE Stopped

\* C21: on the BLE base an M:<vx>:<vy> command whose two components are both
\* below 0.05 in magnitude (M:0:0 included) leaves all four wheels stopped
\* with zero magnitude instead of a small drive command; an M: command with at
\* least one component at or above 0.05 in magnitude is passed to the
\* kinematics, whose four values are what the wheels are driven with.
C21_DeadZoneStops ==
    [][(/\ board = "base_ble" /\ evt'.type = "WRITE" /\ evt'.msg.head = "M:"
        /\ Len(evt'.msg.args) >= 2
        /\ evt'.msg.args[1].isInt /\ evt'.msg.args[2].isInt)
        => LET x == evt'.msg.args[1].val
               y == evt'.msg.args[2].val
           IN  IF 20 * abs(x) < VGrid /\ 20 * abs(y) < VGrid
               THEN motors' = <<Stopped, Stopped, Stopped, Stopped>>
               ELSE \A i \in 1..4 : motors'[i] = Wheel(moveXY(x, y).out[i])]_vars

\* M:0.025:0.025 was written, which the kinematics would turn into a small
\* drive command: the wheels are stopped
C21_Witness ==
    /\ board = "base_ble" /\ evt.type = "WRITE"
    /\ evt.msg = Msg("M:", "", <<I(1), I(1)>>)
    /\ moveXY(1, 1).out[1] > 0
    /\ motors = <<Stopped, Stopped, Stopped, Stopped>>

\* C32: in the BLE base sketch rotationSpeed is in [50, 255] in every
\* reachable state: S:<value> stores the value clamped to [50, 255], a payload
\* that is no number counting as 0, and an S: command leaves the wheel outputs
\* as they are.
C32_RotationSpeedRange ==
    [][board = "base_ble"
        => /\ rotationSpeed \in 50..255 /\ rotationSpeed' \in 50..255
           /\ (evt'.type = "WRITE" /\ evt'.msg.head = "S:")
                 => LET f == evt'.msg.args[1]
                        v == IF f.isInt THEN f.val ELSE 0
                    IN  /\ rotationSpeed' = IF v < 50 THEN 50 ELSE IF v > 255 THEN 255 ELSE v
                        /\ motors' = motors]_vars

\* S:300 was written while the base was turning left at 180: the speed is
\* stored as 255 and the wheels still turn at 180
C32_Witness ==
    /\ board = "base_ble" /\ evt.type = "WRITE"
    /\ evt.msg = Msg("S:", "", <<I(300)>>)
    /\ rotationSpeed = 255
    /\ motors = <<Forward(180), Reverse(180), Forward(180), Reverse(180)>>

\* the two base sketches side by side
BasesInit == WsInit \/ BaseBleInit

BasesNext == WsNext \/ BaseBleNext

SpecBases == BasesInit /\ [][BasesNext]_vars

BleInit == BaseBleInit \/ ArmBleInit

BleNext == BaseBleNext \/ ArmBleNext

SpecBle == BleInit /\ [][BleNext]_vars

\* C24: in the BLE base and the BLE arm sketch no M:, C:, S: or A: command
\* changes the wheel outputs, rotationSpeed or the servo positions unless the
\* session has completed the authentication handshake since its last connect.
\* Neither sketch has a handshake: authenticated is never set.
C24_BleCommandsNeedAuth ==
    [][(board \in {"base_ble", "arm_ble"} /\ evt'.type = "WRITE" /\ ~authenticated)
        => UNCHANGED <<motors, rotationSpeed, servoPositions, servoAngle>>]_vars

\* C25: on the BLE base, when more than 10000 ms have passed since the last
\* frame arrived and the link is still connected, the wheels are at a full
\* stop once loop() has run, without any further input.
C25_SilenceStopsWheels ==
    (/\ board = "base_ble" /\ deviceConnected
     /\ evt.type = "LOOP" /\ sinceHeartbeat > PING_TIMEOUT)
        => motors = <<Stopped, Stopped, Stopped, Stopped>>

-----------------------------------------------------------------------------
(* The controller app with homing: the App component's arm state, its two    *)
(* timers and its input handlers.  The app computes in floating point; here  *)
(* an angle is kept in units of 1 / Q degree and a joystick sample in        *)
(* hundredths, and the inputs are chosen so that every step is exact.  The   *)
(* effect that copies the state into stateRef runs with the render that      *)
(* follows an update, so a timer callback reads the state as last rendered.  *)

\* units per degree
Q == 4
Deg(n) == n * Q

\* timer callbacks run at most this many times
MaxAppTicks == 3

HOME_POSITIONS ==
    [base |-> Deg(90), shoulder |-> Deg(0), elbow |-> Deg(180), wrist |-> Deg(110),
     gripper |-> Deg(110)]

\* const HOMING_SPEED = 3.0 and const MAX_SPEED = 5.0 of the control loop, and
\* const step = 2 of the gripper timer, in degrees per tick
HOMING_SPEED == 3
ARM_MAX_SPEED == 5
GRIPPER_STEP == 2

\* Math.max(lo, Math.min(hi, v))
Clamp(v, lo, hi) == IF v > hi THEN hi ELSE IF v < lo THEN lo ELSE v

\* the useState initial values
InitialApp ==
    [armBase |-> Deg(90), armBaseVelocity |-> 0, armShoulder |-> Deg(0),
     armElbow |-> Deg(180), armWrist |-> Deg(110), armWristVelocity |-> 0,
     armGripper |-> Deg(110), armVx |-> 0, armVy |-> 0, isHoming |-> FALSE,
     gripperAction |-> "idle", isConnected |-> FALSE]

\* the five joint targets, and their home values, in the order of the calls
JointsOf(s) == <<s.armBase, s.armShoulder, s.armElbow, s.armWrist, s.armGripper>>
HomeJoints ==
    <<HOME_POSITIONS.base, HOME_POSITIONS.shoulder, HOME_POSITIONS.elbow,
      HOME_POSITIONS.wrist, HOME_POSITIONS.gripper>>

\* moveTowards: the value it returns, and whether it sets reachedHome = false
moveTowards(current, target, speed) ==
    IF abs(current - target) < speed THEN target
    ELSE IF current < target THEN current + speed ELSE current - speed

ClearsReachedHome(current, target, speed) == ~(abs(current - target) < speed)

Min(S) == CHOOSE x \in S : \A y \in S : x <= y

\* the value of reachedHome when "if (reachedHome)" is evaluated.  moveTowards
\* runs inside the updater functions handed to the setters.  React calls an
\* updater when it renders; it calls it at once only while the component has
\* no update pending, that is up to and including the first setter whose
\* result differs from the state.  eager says whether the component had no
\* update pending when the callback started.
reachedHome(s, eager) ==
    LET cur == JointsOf(s)
        changing == { i \in 1..5 : cur[i] # HomeJoints[i] }
    IN  IF ~eager \/ changing = {} THEN TRUE
        ELSE LET j == Min(changing)
             IN  ~ClearsReachedHome(cur[j], HomeJoints[j], Deg(HOMING_SPEED))

\* the homing branch: the five setters and setIsHoming
HomingStep(s, eager) ==
    [s EXCEPT !.armBase = moveTowards(@, HOME_POSITIONS.base, Deg(HOMING_SPEED)),
              !.armShoulder = moveTowards(@, HOME_POSITIONS.shoulder, Deg(HOMING_SPEED)),
              !.armElbow = moveTowards(@, HOME_POSITIONS.elbow, Deg(HOMING_SPEED)),
              !.armWrist = moveTowards(@, HOME_POSITIONS.wrist, Deg(HOMING_SPEED)),
              !.armGripper = moveTowards(@, HOME_POSITIONS.gripper, Deg(HOMING_SPEED)),
              !.isHoming = IF reachedHome(s, eager) THEN FALSE ELSE @]

\* Math.abs(v) > 0.05 for a joystick sample v in hundredths
Deflected(v) == abs(v) > 5

\* (velocity / 100) * MAX_SPEED and v * Math.abs(v) * MAX_SPEED, in units
SliderSpeed(velocity) == (Deg(ARM_MAX_SPEED) * velocity) \div 100
JoystickDelta(v) == (Deg(ARM_MAX_SPEED) * v * abs(v)) \div 10000

\* the shoulder is not clamped
ManualStepShoulderFree(s) ==
    LET joy == Deflected(s.armVx) \/ Deflected(s.armVy)
    IN  [s EXCEPT
          !.armBase = IF abs(s.armBaseVelocity) > 5
                      THEN Clamp(@ + SliderSpeed(s.armBaseVelocity), Deg(0), Deg(180))
                      ELSE @,
          !.armWrist = IF abs(s.armWristVelocity) > 5
                       THEN Clamp(@ + SliderSpeed(s.armWristVelocity), Deg(0), Deg(110))
                       ELSE @,
          !.armShoulder = IF joy THEN @ + JoystickDelta(s.armVx) ELSE @,
          !.armElbow = IF joy THEN Clamp(@ - JoystickDelta(s.armVy), Deg(0), Deg(180))
                       ELSE @]

\* the manual branch
ManualStep(s) ==
    LET joy == Deflected(s.armVx) \/ Deflected(s.armVy)
    IN  [s EXCEPT
          !.armBase = IF abs(s.armBaseVelocity) > 5
                      THEN Clamp(@ + SliderSpeed(s.armBaseVelocity), Deg(0), Deg(180))
                      ELSE @,
          !.armWrist = IF abs(s.armWristVelocity) > 5
                       THEN Clamp(@ + SliderSpeed(s.armWristVelocity), Deg(0), Deg(110))
                       ELSE @,
          !.armShoulder = IF joy THEN Clamp(@ + JoystickDelta(s.armVx), Deg(0), Deg(70))
                          ELSE @,
          !.armElbow = IF joy THEN Clamp(@ - JoystickDelta(s.armVy), Deg(0), Deg(180))
                       ELSE @]

\* Math.round of an angle, in units
RoundDeg(a) == Deg(MathRound(a, Q))

\* the command string of a tick, as the values of its five fields
ArmCmd(s) ==
    <<RoundDeg(s.armBase), Deg(70) - RoundDeg(s.armShoulder), RoundDeg(s.armElbow),
      s.armWrist, s.armGripper>>

\* what the interval callback sends
SentByTickManualOnly(s) == IF s.isHoming THEN <<>> ELSE <<ArmCmd(s)>>
SentByTick(s) == <<ArmCmd(s)>>

\* the homing run as a control tick leaves it
RunTicked == IF homeRun = <<>> THEN homeRun ELSE [homeRun EXCEPT !.n = @ + 1]
\* the homing run as a manual input or a gripper action leaves it
RunDisturbed == IF homeRun = <<>> THEN homeRun ELSE [homeRun EXCEPT !.clean = FALSE]

AppStep(type, s, out, run) ==
    /\ app' = s
    /\ sent' = out
    /\ appEvt' = type
    /\ homeRun' = run
    /\ UNCHANGED <<fwVars, kinVars, dspVars, wscVars>>

\* the model holds the client with homing, not the older client
HomingClient == "isHoming" \in DOMAIN app

\* the callback of the main control loop, every 50 ms while connected
ControlTick(eager) ==
    /\ HomingClient /\ app.isConnected
    /\ appTicks < MaxAppTicks
    /\ appTicks' = appTicks + 1
    /\ AppStep("TICK", IF app.isHoming THEN HomingStep(app, eager) ELSE ManualStep(app),
               SentByTick(app), RunTicked)

\* the callback of the gripper hold-to-move timer, every 50 ms while a
\* gripper button is held
GripperTick ==
    /\ HomingClient /\ app.gripperAction # "idle"
    /\ appTicks < MaxAppTicks
    /\ appTicks' = appTicks + 1
    /\ AppStep("GRIP_TICK",
               [app EXCEPT !.armGripper =
                   Clamp(@ + (IF app.gripperAction = "opening" THEN Deg(GRIPPER_STEP)
                              ELSE -Deg(GRIPPER_STEP)), Deg(0), Deg(110))],
               <<>>, RunDisturbed)

MaxJointDistance(s) ==
    LET d == [i \in 1..5 |-> abs(JointsOf(s)[i] - HomeJoints[i])]
    IN  Max2(Max2(d[1], d[2]), Max2(Max2(d[3], d[4]), d[5]))

\* an input is held or a gripper button is down
ManualInput(s) ==
    \/ Deflected(s.armVx) \/ Deflected(s.armVy)
    \/ s.armBaseVelocity # 0 \/ s.armWristVelocity # 0

\* the Home button
HomeClick ==
    /\ HomingClient
    /\ UNCHANGED appTicks
    /\ AppStep("INPUT", [app EXCEPT !.isHoming = TRUE], <<>>,
               [d |-> MaxJointDistance(app), n |-> 0,
                clean |-> ~ManualInput(app) /\ app.gripperAction = "idle"])

JoySamples == { <<0, 0>>, <<4, -4>>, <<100, 100>>, <<-100, -100>> }

\* handleArmJoystick(x, y)
handleArmJoystick(x, y) ==
    /\ HomingClient
    /\ UNCHANGED appTicks
    /\ AppStep("INPUT",
               [app EXCEPT !.armVx = x, !.armVy = y,
                           !.isHoming = IF Deflected(x) \/ Deflected(y) THEN FALSE ELSE @],
               <<>>,
               IF Deflected(x) \/ Deflected(y) THEN RunDisturbed ELSE homeRun)

BaseVelocities == {20}
WristVelocities == {-50}

\* onChange of the base and of the wrist slider
BaseSliderChange(v) ==
    /\ HomingClient
    /\ UNCHANGED appTicks
    /\ AppStep("INPUT", [app EXCEPT !.armBaseVelocity = v, !.isHoming = FALSE],
               <<>>, RunDisturbed)

WristSliderChange(v) ==
    /\ HomingClient
    /\ UNCHANGED appTicks
    /\ AppStep("INPUT", [app EXCEPT !.armWristVelocity = v, !.isHoming = FALSE],
               <<>>, RunDisturbed)

\* onMouseUp / onTouchEnd of the sliders
SliderRelease ==
    /\ HomingClient
    /\ app.armBaseVelocity # 0 \/ app.armWristVelocity # 0
    /\ UNCHANGED appTicks
    /\ \/ AppStep("INPUT", [app EXCEPT !.armBaseVelocity = 0], <<>>, homeRun)
       \/ AppStep("INPUT", [app EXCEPT !.armWristVelocity = 0], <<>>, homeRun)

\* the gripper buttons: pressed and released
GripperButton(action) ==
    /\ HomingClient
    /\ app.gripperAction # action
    /\ UNCHANGED appTicks
    /\ AppStep("INPUT", [app EXCEPT !.gripperAction = action], <<>>,
               IF action = "idle" THEN homeRun ELSE RunDisturbed)

\* useBluetoothController: connect() succeeded, and onDisconnected
ArmLink(up) ==
    /\ HomingClient
    /\ app.isConnected # up
    /\ UNCHANGED appTicks
    /\ AppStep("INPUT", [app EXCEPT !.isConnected = up], <<>>, homeRun)

AppInit ==
    /\ FwIdle /\ KinIdle /\ DspIdle /\ WscIdle
    /\ app = InitialApp
    /\ sent = <<>>
    /\ appEvt = "INIT"
    /\ appTicks = 0
    /\ homeRun = <<>>

AppNext ==
    \/ \E eager \in BOOLEAN : ControlTick(eager)
    \/ GripperTick
    \/ HomeClick
    \/ \E j \in JoySamples : handleArmJoystick(j[1], j[2])
    \/ \E v \in BaseVelocities : BaseSliderChange(v)
    \/ \E v \in WristVelocities : WristSliderChange(v)
    \/ SliderRelease
    \/ \E a \in {"idle", "opening", "closing"} : GripperButton(a)
    \/ \E up \in BOOLEAN : ArmLink(up)

SpecApp == AppInit /\ [][AppNext]_vars

\* C13: a homing run that no manual input and no gripper action disturbs has
\* all five joints at their home values after exactly ceil(d / 3) control
\* ticks, d being the largest distance of a joint from home when homing was
\* requested.
C13_HomingConverges ==
    (/\ homeRun # <<>> /\ homeRun.clean
     /\ homeRun.n * Deg(HOMING_SPEED) >= homeRun.d
     /\ (homeRun.n - 1) * Deg(HOMING_SPEED) < homeRun.d)
        => JointsOf(app) = HomeJoints

\* C14: whenever a control tick runs while a manual input is nonzero (the arm
\* joystick beyond the dead zone, or a velocity slider off zero), homing is
\* inactive and the tick applies manual control, whichever came first, the
\* home request or the input.
C14_ManualPreemptsHoming ==
    [][(appEvt' = "TICK" /\ ManualInput(app))
        => (~app.isHoming /\ JointsOf(app') = JointsOf(ManualStep(app)))]_vars

\* C15: while the arm link is connected every control tick sends exactly one
\* A: command, in homing and in manual mode, carrying the five joint targets
\* the tick started from: base, elbow rounded, the shoulder as 70 minus its
\* rounded angle, wrist and gripper; a control tick runs only while the link
\* is connected, and no other step of the arm logic sends a command.
C15_OneCommandPerTick ==
    [][/\ appEvt' = "TICK"
          => /\ app.isConnected
             /\ Len(sent') = 1
             /\ sent'[1] = <<Deg(MathRound(app.armBase, Q)),
                             Deg(70 - MathRound(app.armShoulder, Q)),
                             Deg(MathRound(app.armElbow, Q)),
                             app.armWrist, app.armGripper>>
       /\ appEvt' # "TICK" => sent' = <<>>]_vars

\* a homing tick, from shoulder 5 and elbow 175, sent its one command
C15_Witness ==
    /\ appEvt = "TICK" /\ homeRun # <<>> /\ homeRun.n = 1 /\ homeRun.clean
    /\ sent = << <<Deg(90), Deg(65), Deg(175), Deg(110), Deg(110)>> >>
    /\ app.armShoulder = Deg(2) /\ app.armElbow = Deg(178)

\* C16: every A: command the arm control loop sends carries five integers,
\* base, shoulder, elbow and wrist in [0, 180] and gripper in [0, 110].
C16_CommandFieldsInRange ==
    \A k \in 1..Len(sent) :
        /\ \A i \in 1..5 : sent[k][i] % Q = 0
        /\ \A i \in 1..4 : sent[k][i] \in Deg(0)..Deg(180)
        /\ sent[k][5] \in Deg(0)..Deg(110)

\* C28: homing ends by itself exactly on the control tick that starts with
\* every joint less than the 3 degree step away from home, and that tick sets
\* every joint exactly to home; it never ends by itself on a tick that starts
\* with some joint 3 degrees or more away.
C28_HomingEndsExactly ==
    [][(appEvt' = "TICK" /\ app.isHoming)
        => LET near == \A i \in 1..5 :
                           abs(JointsOf(app)[i] - HomeJoints[i]) < Deg(HOMING_SPEED)
           IN  /\ app'.isHoming = ~near
               /\ near => JointsOf(app') = HomeJoints]_vars

\* C29: a control tick applies either the homing step or manual control,
\* never both, and while homing is active the five joint targets, the
\* gripper among them, are changed by the homing step only.
C29_HomingExcludesManual ==
    [][/\ appEvt' = "TICK"
          => JointsOf(app') = JointsOf(IF app.isHoming THEN HomingStep(app, TRUE)
                                       ELSE ManualStep(app))
       /\ (app.isHoming /\ JointsOf(app') # JointsOf(app))
          => (appEvt' = "TICK" /\ JointsOf(app') = JointsOf(HomingStep(app, TRUE)))]_vars

-----------------------------------------------------------------------------
(* The older controller app (src/src/App.jsx): the arm is driven by one      *)
(* joystick, x turning the base and y changing the arm extension, a          *)
(* percentage kept in units of 1 / Q percent, from which the shoulder and    *)
(* elbow angles of a command are derived.  The wrist slider and the gripper  *)
(* timer write armWrist and armGripper only and are left out.                *)

ExtensionClient == "armExtension" \in DOMAIN app

\* const MAX_SPEED = 8.0 and const MAX_EXT_SPEED = 5.0 of the control loop
EXT_BASE_SPEED == 8
MAX_EXT_SPEED == 5

\* the useState initial values, and what continued full deflection makes of
\* them: the base after ten ticks to the right, the extension after nineteen
\* ticks upwards
ExtStartBases == {Deg(90), Deg(170)}
ExtStartExtensions == {0, 95 * Q}

InitialExtApp(b, e) ==
    [armBase |-> b, armExtension |-> e, armWrist |-> Deg(110), armGripper |-> Deg(110),
     armVx |-> 0, armVy |-> 0, isConnected |-> FALSE]

\* the command of a tick: servoShoulder = 180 - Math.round(ext / 100 * 70),
\* servoElbow = Math.round(180 - ext / 100 * 110)
ExtArmCmd(s) ==
    <<RoundDeg(s.armBase),
      Deg(180 - MathRound(70 * s.armExtension, 100 * Q)),
      Deg(MathRound(180 * 100 * Q - 110 * s.armExtension, 100 * Q)),
      s.armWrist, s.armGripper>>

\* the incremental control of a tick
ExtStep(s) ==
    IF Deflected(s.armVx) \/ Deflected(s.armVy)
    THEN [s EXCEPT
           !.armBase = Clamp(@ + (Deg(EXT_BASE_SPEED) * s.armVx * abs(s.armVx)) \div 10000,
                             Deg(0), Deg(180)),
           !.armExtension =
               Clamp(@ - (MAX_EXT_SPEED * Q * s.armVy * abs(s.armVy)) \div 10000,
                     0, 100 * Q)]
    ELSE s

\* the callback of the control loop, every 50 ms while connected
ExtControlTick ==
    /\ ExtensionClient /\ app.isConnected
    /\ appTicks < MaxAppTicks
    /\ appTicks' = appTicks + 1
    /\ AppStep("TICK", ExtStep(app), <<ExtArmCmd(app)>>, homeRun)

ExtJoySamples == { <<0, 0>>, <<100, -100>>, <<-50, 100>> }

ExtHandleArmJoystick(x, y) ==
    /\ ExtensionClient
    /\ UNCHANGED appTicks
    /\ AppStep("INPUT", [app EXCEPT !.armVx = x, !.armVy = y], <<>>, homeRun)

ExtArmLink(up) ==
    /\ ExtensionClient
    /\ app.isConnected # up
    /\ UNCHANGED appTicks
    /\ AppStep("INPUT", [app EXCEPT !.isConnected = up], <<>>, homeRun)

ExtAppInit ==
    /\ FwIdle /\ KinIdle /\ DspIdle /\ WscIdle
    /\ app \in { InitialExtApp(b, e) : b \in ExtStartBases, e \in ExtStartExtensions }
    /\ sent = <<>>
    /\ appEvt = "INIT"
    /\ appTicks = 0
    /\ homeRun = <<>>

ExtAppNext ==
    \/ ExtControlTick
    \/ \E j \in ExtJoySamples : ExtHandleArmJoystick(j[1], j[2])
    \/ \E up \in BOOLEAN : ExtArmLink(up)

\* the two clients side by side
ClientsInit == AppInit \/ ExtAppInit

ClientsNext == AppNext \/ ExtAppNext

SpecClients == ClientsInit /\ [][ClientsNext]_vars

-----------------------------------------------------------------------------
(* The base logic of the controller app: the effect that depends on         *)
(* baseBle.isConnected, baseVx and baseVy.  React runs the cleanup of the    *)
(* effect and the effect again with every render in which one of them has   *)
(* changed.  A timer is the time in ms since it was set or last fired; a     *)
(* timer that is due fires before time moves on, and two timers due at the   *)
(* same time fire in either order.  A joystick sample is in hundredths, a    *)
(* command M:vx:vy is the pair of its fields in thousandths (toFixed(3)).    *)

\* the period of the two intervals and the delay of the timeout, in ms
TICK_MS == 50
GRACE_MS == 500

\* time moves on in steps of these lengths
TimeSteps == {25}

NoTimer == -1

\* Math.abs(baseVx) < 0.05 && Math.abs(baseVy) < 0.05
BaseDead(s) == abs(s.baseVx) < 5 /\ abs(s.baseVy) < 5

\* connected, and the input outside the dead zone
Driving(s) == s.isConnected /\ ~BaseDead(s)

StopCmd == <<0, 0>>
DriveCmd(s) == <<10 * s.baseVx, 10 * s.baseVy>>

InitialBase ==
    [baseVx |-> 0, baseVy |-> 0, isConnected |-> FALSE,
     stopInterval |-> NoTimer, timeout |-> NoTimer, interval |-> NoTimer]

\* the cleanup function of the effect as last run
Cleanup(s) ==
    [s EXCEPT !.stopInterval = NoTimer, !.timeout = NoTimer, !.interval = NoTimer]

\* the stop path sends nothing before the first period is over
BaseEffectNoFirstStop(s) ==
    IF ~s.isConnected THEN [state |-> Cleanup(s), out |-> <<>>]
    ELSE IF BaseDead(s)
    THEN [state |-> [Cleanup(s) EXCEPT !.stopInterval = 0, !.timeout = 0],
          out |-> <<>>]
    ELSE [state |-> [Cleanup(s) EXCEPT !.interval = 0], out |-> <<>>]

\* the effect, run for the state s just rendered: the timers it leaves set
\* and what it sends
BaseEffect(s) ==
    IF ~s.isConnected THEN [state |-> Cleanup(s), out |-> <<>>]
    ELSE IF BaseDead(s)
    THEN [state |-> [Cleanup(s) EXCEPT !.stopInterval = 0, !.timeout = 0],
          out |-> <<StopCmd>>]
    ELSE [state |-> [Cleanup(s) EXCEPT !.interval = 0], out |-> <<>>]

\* a render with changed dependencies: s is the new state
Rerender(type, s) ==
    LET r == BaseEffect(s)
    IN  /\ base' = r.state
        /\ baseSent' = r.out
        /\ baseEvt' = type
        /\ sinceSend' = IF r.out = <<>> /\ Driving(base) /\ Driving(s) THEN sinceSend
                        ELSE 0
        /\ stopCount' = Len(r.out)
        /\ UNCHANGED <<fwVars, kinVars, appVars, wscVars>>

BaseJoySamples == { <<0, 0>>, <<2, 0>>, <<50, 0>>, <<60, -10>> }

\* setVelocity of the base joystick: setBaseVx(vx); setBaseVy(vy)
BaseJoystick(x, y) ==
    /\ base # <<>>
    /\ <<x, y>> # <<base.baseVx, base.baseVy>>
    /\ Rerender("INPUT", [base EXCEPT !.baseVx = x, !.baseVy = y])

\* useBluetoothController of the base: connect() succeeded, and onDisconnected
BaseLink(up) ==
    /\ base # <<>>
    /\ base.isConnected # up
    /\ Rerender("LINK", [base EXCEPT !.isConnected = up])

\* a timer callback: the timers as it leaves them and what it sends
Fire(type, s, out) ==
    /\ base' = s
    /\ baseSent' = out
    /\ baseEvt' = type
    /\ sinceSend' = IF out = <<>> THEN sinceSend ELSE 0
    /\ stopCount' = IF out = <<StopCmd>> THEN stopCount + 1 ELSE stopCount
    /\ UNCHANGED <<fwVars, kinVars, appVars, wscVars>>

\* the callback of stopInterval
StopIntervalFire ==
    /\ base # <<>>
    /\ base.stopInterval = TICK_MS
    /\ Fire("STOP_TICK", [base EXCEPT !.stopInterval = 0], <<StopCmd>>)

\* the callback of the timeout: clearInterval(stopInterval)
GraceTimeout ==
    /\ base # <<>>
    /\ base.timeout = GRACE_MS
    /\ Fire("TIMEOUT", [base EXCEPT !.stopInterval = NoTimer, !.timeout = NoTimer], <<>>)

\* the callback of the drive interval
DriveIntervalFire ==
    /\ base # <<>>
    /\ base.interval = TICK_MS
    /\ Fire("DRIVE_TICK", [base EXCEPT !.interval = 0], <<DriveCmd(base)>>)

Aged(t, dt) == IF t = NoTimer THEN t ELSE t + dt

\* sinceSend is not counted beyond this
SinceCap == 3 * TICK_MS

\* dt ms pass with no timer due
Advance(dt) ==
    /\ base # <<>>
    /\ base.stopInterval # TICK_MS /\ base.interval # TICK_MS
    /\ base.timeout # GRACE_MS
    /\ base' = [base EXCEPT !.stopInterval = Aged(@, dt), !.timeout = Aged(@, dt),
                             !.interval = Aged(@, dt)]
    /\ baseSent' = <<>>
    /\ baseEvt' = "ADVANCE"
    /\ sinceSend' = IF sinceSend + dt > SinceCap THEN SinceCap ELSE sinceSend + dt
    /\ UNCHANGED <<stopCount, fwVars, kinVars, appVars, wscVars>>

DspInit ==
    /\ FwIdle /\ KinIdle /\ AppIdle /\ WscIdle
    /\ base = InitialBase
    /\ baseSent = <<>>
    /\ baseEvt = "INIT"
    /\ sinceSend = 0
    /\ stopCount = 0

DspNext ==
    \/ \E j \in BaseJoySamples : BaseJoystick(j[1], j[2])
    \/ \E up \in BOOLEAN : BaseLink(up)
    \/ StopIntervalFire
    \/ GraceTimeout
    \/ DriveIntervalFire
    \/ \E dt \in TimeSteps : Advance(dt)

SpecDsp == DspInit /\ [][DspNext]_vars

\* the effect is on its stop path: connected, input inside the dead zone
Stopping(s) == s.isConnected /\ BaseDead(s)

\* C22: when the base is connected and both velocity components are inside
\* the dead zone, the dispatcher sends M:0:0 at once when the input or the
\* connection changes into that state, then again every 50 ms while the
\* 500 ms grace window is open, and nothing once the window has closed, until
\* the input or the connection changes; one quiet period produces at most 11
\* stop messages.
C22_StopPath ==
    [][/\ (baseEvt' \in {"INPUT", "LINK"} /\ Stopping(base'))
          => baseSent' = <<StopCmd>>
       /\ (Stopping(base') /\ base'.timeout # NoTimer)
          => (sinceSend' <= TICK_MS /\ base'.stopInterval # NoTimer)
       /\ (Stopping(base) /\ base.timeout = NoTimer /\ baseEvt' \notin {"INPUT", "LINK"})
          => (baseSent' = <<>> /\ base'.stopInterval = NoTimer)
       /\ Stopping(base') => (stopCount' <= 11 /\ \A k \in 1..Len(baseSent') :
                                                     baseSent'[k] = StopCmd)]_vars

\* a quiet period that produced eleven stop messages, its window closed and
\* time moving on in silence
C22_Witness ==
    /\ base # <<>> /\ Stopping(base) /\ baseEvt = "ADVANCE"
    /\ stopCount = 11 /\ base.timeout = NoTimer /\ base.stopInterval = NoTimer
    /\ sinceSend > TICK_MS

\* C23: while the base is connected and the velocity input is outside the
\* dead zone, never more than 50 ms pass without an M: command, counted from
\* the last command or from the moment the input left the dead zone or the
\* link came up, whatever the input does meanwhile.
C23_DriveEveryTick ==
    (base # <<>> /\ Driving(base)) => sinceSend <= TICK_MS

-----------------------------------------------------------------------------
(* The WebSocket controller page (src/unnamed/part_002): connect(), its      *)
(* socket handlers, disconnect() and the timers they start.                  *)

MaxSockets == 2
MaxTimers == 2
MaxCloses == 11

RETRY_MAX == 10
BACKOFF_MS == 500

\* the page of the model is the WebSocket controller page
WsClient == wsApp # <<>>

Slots == 1 .. MaxSockets
\* a ref that was never set, and a ref to a socket that has closed or to an
\* interval that was cleared
NullRef == 0
GoneRef == -1

RECURSIVE Pow2(_)
Pow2(n) == IF n = 0 THEN 1 ELSE 2 * Pow2(n - 1)

\* retryRef.current = Math.min(10, retryRef.current + 1)
NextRetryUncapped(r) == r + 1
NextRetry(r) == IF r + 1 < RETRY_MAX THEN r + 1 ELSE RETRY_MAX

\* const delay = 500 * Math.pow(2, retryRef.current)
ReconnectDelay(r) == BACKOFF_MS * Pow2(r)

InitialWsApp ==
    [sockets |-> [s \in Slots |-> "CLOSED"], wsRef |-> NullRef, retryRef |-> 0,
     heartbeatRef |-> NullRef, connected |-> FALSE, timers |-> {}, leaked |-> 0,
     pending |-> 0]

\* the sockets that are not closed, and the heartbeat intervals that run
LiveSockets(a) == {s \in Slots : a.sockets[s] # "CLOSED"}
LiveTimers(a) == Cardinality(a.timers) + a.leaked

\* connect(): nothing if the socket wsRef holds is open, else a new socket
\* that wsRef then holds
connect(a) ==
    IF a.wsRef \in Slots /\ a.sockets[a.wsRef] = "OPEN" THEN a
    ELSE LET s == Min(Slots \ LiveSockets(a))
         IN  [a EXCEPT !.sockets[s] = "CONNECTING", !.wsRef = s]

\* clearInterval(heartbeatRef.current), guarded by the ref being set
clearHeartbeat(a) ==
    IF a.heartbeatRef \in a.timers
    THEN [a EXCEPT !.timers = @ \ {a.heartbeatRef}, !.heartbeatRef = GoneRef]
    ELSE a

Logged(type, msg, a) ==
    [type |-> type, sent |-> msg, opened |-> LiveSockets(a) \ LiveSockets(wsApp),
     delay |-> wsLog.delay, closes |-> wsLog.closes, userOff |-> wsLog.userOff]

\* the Connect button, shown while connected is false
ConnectClick ==
    /\ WsClient /\ ~wsApp.connected
    /\ Cardinality(LiveSockets(wsApp)) + wsApp.pending < MaxSockets
    /\ wsApp' = connect(wsApp)
    /\ wsLog' = [Logged("CONNECT", "", connect(wsApp)) EXCEPT !.userOff = FALSE]
    /\ UNCHANGED <<fwVars, kinVars, appVars, dspVars>>

\* the callback of setTimeout(() => connect(), delay)
ReconnectFire ==
    /\ WsClient /\ wsApp.pending > 0
    /\ LET a == [connect(wsApp) EXCEPT !.pending = @ - 1]
       IN  /\ wsApp' = a
           /\ wsLog' = Logged("RECONNECT", "", a)
    /\ UNCHANGED <<fwVars, kinVars, appVars, dspVars>>

\* ws.onopen of socket s
SocketOpen(s) ==
    /\ WsClient /\ wsApp.sockets[s] = "CONNECTING"
    /\ LiveTimers(wsApp) < MaxTimers
    /\ wsApp' = [wsApp EXCEPT !.sockets[s] = "OPEN", !.retryRef = 0,
                              !.connected = TRUE, !.timers = @ \cup {s},
                              !.heartbeatRef = s]
    /\ wsLog' = [Logged("OPEN", "AUTH:" \o authToken, wsApp)
                   EXCEPT !.delay = 0, !.closes = 0]
    /\ UNCHANGED <<fwVars, kinVars, appVars, dspVars>>

\* ws.onerror of socket s: ws.close()
SocketError(s) ==
    /\ WsClient /\ wsApp.sockets[s] \in {"CONNECTING", "OPEN"}
    /\ wsApp' = [wsApp EXCEPT !.sockets[s] = "CLOSING"]
    /\ wsLog' = Logged("ERROR", "", wsApp)
    /\ UNCHANGED <<fwVars, kinVars, appVars, dspVars>>

\* ws.onclose of socket s; the interval started for s runs on if it is not
\* the one heartbeatRef holds
SocketClose(s) ==
    /\ WsClient /\ wsApp.sockets[s] # "CLOSED"
    /\ wsLog.closes < MaxCloses
    /\ LET c == clearHeartbeat(wsApp)
           r == NextRetry(wsApp.retryRef)
       IN  /\ wsApp' = [c EXCEPT !.sockets[s] = "CLOSED",
                                 !.wsRef = IF @ = s THEN GoneRef ELSE @,
                                 !.connected = FALSE,
                                 !.timers = @ \ {s},
                                 !.leaked = IF s \in c.timers THEN @ + 1 ELSE @,
                                 !.retryRef = r,
                                 !.pending = @ + 1]
           /\ wsLog' = [Logged("CLOSE", "", wsApp)
                          EXCEPT !.delay = ReconnectDelay(r), !.closes = @ + 1]
    /\ UNCHANGED <<fwVars, kinVars, appVars, dspVars>>

\* the Disconnect button, shown while connected is true
disconnect ==
    /\ WsClient /\ wsApp.connected
    /\ LET a == IF wsApp.wsRef \in Slots /\ wsApp.sockets[wsApp.wsRef] \in {"CONNECTING", "OPEN"}
                THEN [wsApp EXCEPT !.sockets[wsApp.wsRef] = "CLOSING"]
                ELSE wsApp
       IN  wsApp' = clearHeartbeat([a EXCEPT !.connected = FALSE])
    /\ wsLog' = [Logged("DISCONNECT", "", wsApp) EXCEPT !.userOff = TRUE]
    /\ UNCHANGED <<fwVars, kinVars, appVars, dspVars>>

\* the callback of the heartbeat interval started for socket t, or of one
\* whose socket has closed
HeartbeatFire(t) ==
    /\ WsClient
    /\ t \in wsApp.timers \/ (t = GoneRef /\ wsApp.leaked > 0)
    /\ wsLog' = Logged("HEARTBEAT",
                       IF t \in Slots /\ wsApp.sockets[t] = "OPEN" THEN "PING" ELSE "",
                       wsApp)
    /\ UNCHANGED <<wsApp, fwVars, kinVars, appVars, dspVars>>

WscInit ==
    /\ FwIdle /\ KinIdle /\ AppIdle /\ DspIdle
    /\ wsApp = InitialWsApp
    /\ wsLog = [type |-> "INIT", sent |-> "", opened |-> {}, delay |-> 0,
                closes |-> 0, userOff |-> FALSE]

WscNext ==
    \/ ConnectClick
    \/ ReconnectFire
    \/ disconnect
    \/ \E s \in Slots : SocketOpen(s)
    \/ \E s \in Slots : SocketError(s)
    \/ \E s \in Slots : SocketClose(s)
    \/ \E t \in Slots \cup {GoneRef} : HeartbeatFire(t)

SpecWsc == WscInit /\ [][WscNext]_vars

\* C34: reconnect with backoff in the WebSocket client: every close of a
\* connection schedules exactly one reconnect attempt and no other step
\* schedules one; after the n-th consecutive close without a successful open
\* the attempt is scheduled 500 * 2^min(n,10) ms later, so that within such a
\* run of closes the delays never decrease and never exceed 512000 ms; and
\* every successful open returns the retry counter to 0.
C34_ReconnectBackoff ==
    [][WsClient =>
        /\ wsLog'.type = "CLOSE" =>
              /\ wsApp'.pending = wsApp.pending + 1
              /\ wsLog'.delay = 500 * Pow2(IF wsLog'.closes < 10 THEN wsLog'.closes ELSE 10)
              /\ wsLog'.delay >= wsLog.delay
              /\ wsLog'.delay <= 512000
        /\ wsLog'.type # "CLOSE" => wsApp'.pending <= wsApp.pending
        /\ wsLog'.type = "OPEN" => wsApp'.retryRef = 0]_vars

\* the eleventh close in a row, scheduled at the largest delay
C34_Witness ==
    /\ WsClient /\ wsLog.type = "CLOSE"
    /\ wsLog.closes = 11 /\ wsApp.retryRef = RETRY_MAX /\ wsLog.delay = 512000

\* C36: after the user invokes disconnect() the client stays disconnected:
\* until the user invokes connect() again no socket is created and no AUTH
\* or PING is sent.
C36_DisconnectIsFinal ==
    [][(WsClient /\ wsLog.userOff /\ wsLog'.userOff)
        => (wsLog'.opened = {} /\ wsLog'.sent = "")]_vars

\* C37: at most one socket and at most one heartbeat interval are live at
\* any time, and no heartbeat interval outlives the connection it was
\* started for.
C37_OneSocketOneHeartbeat ==
    WsClient =>
        /\ Cardinality(LiveSockets(wsApp)) <= 1
        /\ LiveTimers(wsApp) <= 1
        /\ wsApp.leaked = 0

=============================================================================
